---- MODULE Spec2Model ----
(***************************************************************************)
(* A model of src/utilities.py: the metric engine (compute_f1,            *)
(* calculate_metrics), the fold partitioner and cross-validator           *)
(* (k_fold_cross_validation), the grid search (hyperparameter_tuning) and  *)
(* the feature selector (columns_to_remove, reduced_data,                  *)
(* drop_highly_correlated_features, drop_test_correlated_features).        *)
(*                                                                         *)
(* Every component has its own specification (SpecMetrics, SpecKFold,      *)
(* SpecTune, SpecCols, SpecCorr; SpecPaired runs the metric engine or a    *)
(* cross-validation); the variables of the components a specification      *)
(* does not run keep their idle values.                                    *)
(***************************************************************************)
EXTENDS Integers, Sequences, FiniteSets, TLC

VARIABLES
    \* ---- metric engine: compute_f1 / calculate_metrics
    y_true,        \* the true labels handed to the call
    y_pred,        \* the predicted labels handed to the call
    m_pc,          \* "idle" | "call" | "returned" | "raised"
    m_op,          \* "none" | "compute_f1" | "calculate_metrics"
    m_ret,         \* the locals of the call at its return (a record), <<>> before
    \* ---- k_fold_cross_validation
    kf_pc,         \* "idle" | "start" | "loop" | "returned" | "raised"
    num_rows,      \* X.shape[0] of the call
    y_len,         \* len(y) of the call
    kf_k,          \* k of the call
    indices,       \* the shuffled index array
    fold_size,     \* num_samples // k
    kf_i,          \* the loop variable i
    folds,         \* per finished iteration: [test |-> test_indices, train |-> train_indices]
    kf_err,        \* "none" | "ZeroDivisionError" | "IndexError"
    \* ---- hyperparameter_tuning
    t_pc,          \* "idle" | "loop" | "compare" | "print" | "done"
    lambdas,       \* the lambdas sequence of the call
    gammas,        \* the gammas sequence of the call
    t_gi,          \* position of the outer loop in gammas (1-based)
    t_li,          \* position of the inner loop in lambdas (1-based)
    model_params,  \* the caller's dict: [lambda_ |-> Opt, gamma |-> Opt]
    cv_calls,      \* the model_params each k_fold_cross_validation call received
    accuracy,      \* the last cross-validation's mean accuracy
    f1_score,      \* the last cross-validation's mean f1
    best_accuracy,
    best_f1_score,
    best_param_lambda,
    best_param_gamma,
    printed,       \* the progress lines, <<lambda, gamma, accuracy, f1>> each
    t_ret,         \* the returned pair, <<>> before the return
    \* ---- columns_to_remove / reduced_data
    c_pc,          \* "idle" | "call" | "returned"
    c_op,          \* "none" | "columns_to_remove" | "reduced_data"
    x_data,        \* the matrix, a sequence of columns, each a sequence of cells
    c_rows,        \* x_data.shape[0]
    c_t,           \* the threshold t, a rational <<numerator, denominator>>
    c_ret,         \* the returned index array / the returned matrix
    \* ---- drop_highly_correlated_features / drop_test_correlated_features
    d_pc,          \* "idle" | "train" | "fitted" | "applied" | "raised"
    d_rows,        \* the row count of the training matrix
    d_cols,        \* D, the column count of the training and of the test matrix
    high,          \* the pairs {i, j} of training columns with abs(corr[i, j]) > threshold
    test_high,     \* the same relation on the test matrix's own columns
    drop_cols,     \* the boolean mask drop_highly_correlated_features returned
    train_kept,    \* the column indices of the reduced training matrix
    test_kept      \* the column indices of the reduced test matrix

metricVars == <<y_true, y_pred, m_pc, m_op, m_ret>>
kfoldVars == <<kf_pc, num_rows, y_len, kf_k, indices, fold_size, kf_i, folds, kf_err>>
tuneVars == <<t_pc, lambdas, gammas, t_gi, t_li, model_params, cv_calls, accuracy, f1_score, best_accuracy, best_f1_score, best_param_lambda, best_param_gamma, printed, t_ret>>
colsVars == <<c_pc, c_op, x_data, c_rows, c_t, c_ret>>
corrVars == <<d_pc, d_rows, d_cols, high, test_high, drop_cols, train_kept, test_kept>>
vars == <<metricVars, kfoldVars, tuneVars, colsVars, corrVars>>

(***************************************************************************)
(* Bounds of the model.                                                    *)
(***************************************************************************)
\* longest label sequence handed to the metric engine
MaxLen == 3
\* largest number of samples of a cross-validation
MaxN == 4
\* largest number of folds
MaxK == 3
\* most grid points (len(lambdas) * len(gammas)) of a grid search
MaxPoints == 4
\* most rows / columns of the matrix of columns_to_remove
MaxRows == 4
MaxCols == 2
\* most columns of the matrices of the correlation filter
MaxD == 3

(***************************************************************************)
(* Values.                                                                 *)
(***************************************************************************)
\* Python's None and a present value: <<>> and <<v>>
None == <<>>
Some(v) == <<v>>
\* float nan (np.isnan, and the np.mean of an empty fold): coded as a negative
\* number; every comparison with it goes through IsNaN, Geq and Eq below
NaN == 0 - 1
IsNaN(a) == a = NaN
\* a >= b on floats: false when either side is nan
Geq(a, b) == ~IsNaN(a) /\ ~IsNaN(b) /\ a >= b
\* a == b on floats: false when either side is nan
Eq(a, b) == ~IsNaN(a) /\ ~IsNaN(b) /\ a = b
Min(a, b) == IF a <= b THEN a ELSE b
Range(s) == {s[n] : n \in 1..Len(s)}
SeqsUpTo(S, n) == UNION {[1..m -> S] : m \in 0..n}

\* Exact fractions <<numerator, denominator>> stand for the floats of the
\* metric arithmetic.
RAdd(a, b) == <<a[1] * b[2] + b[1] * a[2], a[2] * b[2]>>
RMul(a, b) == <<a[1] * b[1], a[2] * b[2]>>
RDiv(a, b) == <<a[1] * b[2], a[2] * b[1]>>
RIsZero(a) == a[1] = 0
REq(a, b) == a[1] * b[2] = b[1] * a[2]
RLeq(a, b) == a[1] * b[2] <= b[1] * a[2]

(***************************************************************************)
(* Metric engine.                                                          *)
(***************************************************************************)
Labels == {0, 1}

\* np.sum(np.logical_and(a == x, b == y)) over two arrays of one length
CountBoth(a, x, b, y) == Cardinality({n \in 1..Len(a) : a[n] = x /\ b[n] = y})

TruePositives(yt, yp) == CountBoth(yp, 1, yt, 1)
FalsePositives(yt, yp) == CountBoth(yp, 1, yt, 0)
FalseNegatives(yt, yp) == CountBoth(yp, 0, yt, 1)

PrecisionSwapped(TP, FP, FN) == IF (TP + FN) # 0 THEN <<TP, TP + FN>> ELSE <<0, 1>>
Precision(TP, FP, FN) == IF (TP + FP) # 0 THEN <<TP, TP + FP>> ELSE <<0, 1>>
Recall(TP, FP, FN) == IF (TP + FN) # 0 THEN <<TP, TP + FN>> ELSE <<0, 1>>

F1Of(precision, recall) ==
    IF ~RIsZero(RAdd(precision, recall))
    THEN RDiv(RMul(<<2, 1>>, RMul(precision, recall)), RAdd(precision, recall))
    ELSE <<0, 1>>

\* the locals of compute_f1 at its return statement
F1Locals(yt, yp) ==
    LET TP == TruePositives(yt, yp)
        FP == FalsePositives(yt, yp)
        FN == FalseNegatives(yt, yp)
        precision == Precision(TP, FP, FN)
        recall == Recall(TP, FP, FN)
    IN  [TP |-> TP, FP |-> FP, FN |-> FN, precision |-> precision,
         recall |-> recall, f1 |-> F1Of(precision, recall)]

\* compute_f1(y_true, y_pred): the assert on the two shapes, then the score
compute_f1 ==
    /\ m_pc = "call"
    /\ m_op' = "compute_f1"
    /\ IF Len(y_true) = Len(y_pred)
       THEN /\ m_pc' = "returned"
            /\ m_ret' = F1Locals(y_true, y_pred)
       ELSE /\ m_pc' = "raised"
            /\ m_ret' = <<>>
    /\ UNCHANGED <<y_true, y_pred, kfoldVars, tuneVars, colsVars, corrVars>>

\* one pass of the for-loop body of calculate_metrics on the pair (yt, yp)
MetricsStep(c, yt, yp) ==
    IF yt = 1 /\ yp = 1 THEN [c EXCEPT !.TP = @ + 1]
    ELSE IF yt = 0 /\ yp = 1 THEN [c EXCEPT !.FP = @ + 1]
    ELSE IF yt = 1 /\ yp = 0 THEN [c EXCEPT !.FN = @ + 1]
    ELSE IF yt = 0 /\ yp = 0 THEN [c EXCEPT !.TN = @ + 1]
    ELSE c

\* zip(y_true, y_pred) stops at the shorter of the two
ZipLen(yt, yp) == Min(Len(yt), Len(yp))

RECURSIVE MetricsLoop(_, _, _)
MetricsLoop(yt, yp, n) ==
    IF n = 0 THEN [TP |-> 0, FP |-> 0, TN |-> 0, FN |-> 0]
    ELSE MetricsStep(MetricsLoop(yt, yp, n - 1), yt[n], yp[n])

\* calculate_metrics(y_true, y_pred): no length check, the zip loop, the counts
calculate_metrics ==
    /\ m_pc = "call"
    /\ m_op' = "calculate_metrics"
    /\ m_pc' = "returned"
    /\ m_ret' = MetricsLoop(y_true, y_pred, ZipLen(y_true, y_pred))
    /\ UNCHANGED <<y_true, y_pred, kfoldVars, tuneVars, colsVars, corrVars>>

(***************************************************************************)
(* Fold partitioner and cross-validator.                                   *)
(***************************************************************************)
\* np.arange(n): 0, 1, ..., n - 1
Arange(n) == [p \in 1..n |-> p - 1]

\* the orders np.random.shuffle can leave an array in
Shuffles(a) == {p \in [1..Len(a) -> Range(a)] : \A m, n \in 1..Len(a) : p[m] = p[n] => m = n}

\* a[lo:hi] for 0 <= lo <= hi: Python clips the slice at the end of the array
Slice(a, lo, hi) == [p \in 1..(Min(hi, Len(a)) - Min(lo, Len(a))) |-> a[Min(lo, Len(a)) + p]]

\* a set of integers as an ascending sequence
RECURSIVE Sorted(_)
Sorted(S) ==
    IF S = {} THEN <<>>
    ELSE LET m == CHOOSE x \in S : \A z \in S : x <= z
         IN  <<m>> \o Sorted(S \ {m})

\* np.setdiff1d(a, b): the sorted, unique values of a that are not in b
SetDiff1d(a, b) == Sorted(Range(a) \ Range(b))

TestIndicesOverlapping(ind, i, fs) == Slice(ind, i * fs, (i + 1) * fs + 1)
\* indices[i * fold_size : (i + 1) * fold_size]
TestIndices(ind, i, fs) == Slice(ind, i * fs, (i + 1) * fs)

TrainIndicesTail(ind, test) == Slice(ind, Len(test), Len(ind))
\* np.setdiff1d(indices, test_indices)
TrainIndices(ind, test) == SetDiff1d(ind, test)

\* a[idx] with an index array raises IndexError when an index is out of bounds
IndexInBounds(idx, len) == \A n \in 1..Len(idx) : idx[n] < len

InitKFold ==
    /\ kf_pc = "start"
    /\ num_rows \in 0..MaxN
    /\ y_len \in {n \in {num_rows - 1, num_rows, num_rows + 1} : n >= 0}
    /\ kf_k \in 0..MaxK
    /\ indices = <<>>
    /\ fold_size = 0
    /\ kf_i = 0
    /\ folds = <<>>
    /\ kf_err = "none"

IdleKFold ==
    /\ kf_pc = "idle"
    /\ num_rows = 0
    /\ y_len = 0
    /\ kf_k = 0
    /\ indices = <<>>
    /\ fold_size = 0
    /\ kf_i = 0
    /\ folds = <<>>
    /\ kf_err = "none"

\* lines 112-117: the index array, the shuffle, fold_size (k = 0 divides by zero)
KFoldStart ==
    /\ kf_pc = "start"
    /\ \E p \in Shuffles(Arange(num_rows)) : indices' = p
    /\ IF kf_k = 0
       THEN /\ kf_pc' = "raised"
            /\ kf_err' = "ZeroDivisionError"
            /\ fold_size' = fold_size
       ELSE /\ kf_pc' = "loop"
            /\ kf_err' = kf_err
            /\ fold_size' = num_rows \div kf_k
    /\ UNCHANGED <<num_rows, y_len, kf_k, kf_i, folds>>
    /\ UNCHANGED <<metricVars, tuneVars, colsVars, corrVars>>

\* lines 119-136: one iteration of the loop over the folds. X[...] is always in
\* bounds; y[train_indices], y[test_indices] raise when y is shorter than X.
KFoldFold ==
    /\ kf_pc = "loop"
    /\ kf_i < kf_k
    /\ LET test_indices == TestIndices(indices, kf_i, fold_size)
           train_indices == TrainIndices(indices, test_indices)
       IN  IF IndexInBounds(train_indices, y_len) /\ IndexInBounds(test_indices, y_len)
           THEN /\ folds' = Append(folds, [test |-> test_indices, train |-> train_indices])
                /\ kf_i' = kf_i + 1
                /\ UNCHANGED <<kf_pc, kf_err>>
           ELSE /\ kf_pc' = "raised"
                /\ kf_err' = "IndexError"
                /\ UNCHANGED <<folds, kf_i>>
    /\ UNCHANGED <<num_rows, y_len, kf_k, indices, fold_size>>
    /\ UNCHANGED <<metricVars, tuneVars, colsVars, corrVars>>

\* lines 138-142: the means over the folds, the return
KFoldReturn ==
    /\ kf_pc = "loop"
    /\ kf_i = kf_k
    /\ kf_pc' = "returned"
    /\ UNCHANGED <<num_rows, y_len, kf_k, indices, fold_size, kf_i, folds, kf_err>>
    /\ UNCHANGED <<metricVars, tuneVars, colsVars, corrVars>>

NextKFold == KFoldStart \/ KFoldFold \/ KFoldReturn

(***************************************************************************)
(* Hyperparameter search.                                                  *)
(***************************************************************************)
\* The grids: distinct values, lambdas 11, 12, ... and gammas 21, 22, ...
LambdaGrid(n) == [p \in 1..n |-> 10 + p]
GammaGrid(n) == [p \in 1..n |-> 20 + p]

\* What a cross-validation can return as (mean accuracy, mean f1): two levels
\* of each score, and the nan accuracy of empty folds (k > num_samples), whose
\* f1 is 0.
Scores == {<<0, 0>>, <<1, 0>>, <<0, 1>>, <<1, 1>>, <<NaN, 0>>}

BetterStrict(acc, f1, bacc, bf1) == Geq(f1, bf1) /\ f1 # bf1 /\ Geq(acc, bacc)
BetterEither(acc, f1, bacc, bf1) == Geq(f1, bf1) \/ Geq(acc, bacc)
\* line 171: f1_score >= best_f1_score and accuracy >= best_accuracy
Better(acc, f1, bacc, bf1) == Geq(f1, bf1) /\ Geq(acc, bacc)

\* whether the loops stand at a grid point
HasPoint(gi, li) == gi \in 1..Len(gammas) /\ li \in 1..Len(lambdas)

AdvanceLambdaOuter(gi, li) == IF gi < Len(gammas) THEN <<gi + 1, li>> ELSE <<1, li + 1>>
\* lines 165-166: the inner loop runs over lambdas, the outer one over gammas
Advance(gi, li) == IF li < Len(lambdas) THEN <<gi, li + 1>> ELSE <<gi + 1, 1>>

InitTune ==
    /\ t_pc = "loop"
    /\ \E nl, ng \in 0..MaxPoints :
          /\ nl * ng <= MaxPoints
          /\ lambdas = LambdaGrid(nl)
          /\ gammas = GammaGrid(ng)
    /\ t_gi = 1
    /\ t_li = 1
    /\ model_params = [lambda_ |-> None, gamma |-> None]
    /\ cv_calls = <<>>
    /\ accuracy = 0
    /\ f1_score = 0
    /\ best_accuracy = 0
    /\ best_f1_score = 0
    /\ best_param_lambda = None
    /\ best_param_gamma = None
    /\ printed = <<>>
    /\ t_ret = <<>>

IdleTune ==
    /\ t_pc = "idle"
    /\ lambdas = <<>>
    /\ gammas = <<>>
    /\ t_gi = 1
    /\ t_li = 1
    /\ model_params = [lambda_ |-> None, gamma |-> None]
    /\ cv_calls = <<>>
    /\ accuracy = 0
    /\ f1_score = 0
    /\ best_accuracy = 0
    /\ best_f1_score = 0
    /\ best_param_lambda = None
    /\ best_param_gamma = None
    /\ printed = <<>>
    /\ t_ret = <<>>

\* lines 165-169: the next grid point, its values put into model_params, the
\* cross-validation run with them
TuneEvaluate ==
    /\ t_pc = "loop"
    /\ HasPoint(t_gi, t_li)
    /\ model_params' = [lambda_ |-> Some(lambdas[t_li]), gamma |-> Some(gammas[t_gi])]
    /\ cv_calls' = Append(cv_calls, model_params')
    /\ \E s \in Scores :
          /\ accuracy' = s[1]
          /\ f1_score' = s[2]
    /\ t_pc' = "compare"
    /\ UNCHANGED <<lambdas, gammas, t_gi, t_li, best_accuracy, best_f1_score, best_param_lambda, best_param_gamma, printed, t_ret>>
    /\ UNCHANGED <<metricVars, kfoldVars, colsVars, corrVars>>

\* lines 171-175: the comparison with the running best
TuneCompare ==
    /\ t_pc = "compare"
    /\ IF Better(accuracy, f1_score, best_accuracy, best_f1_score)
       THEN /\ best_accuracy' = accuracy
            /\ best_f1_score' = f1_score
            /\ best_param_lambda' = Some(lambdas[t_li])
            /\ best_param_gamma' = Some(gammas[t_gi])
       ELSE UNCHANGED <<best_accuracy, best_f1_score, best_param_lambda, best_param_gamma>>
    /\ t_pc' = "print"
    /\ UNCHANGED <<lambdas, gammas, t_gi, t_li, model_params, cv_calls, accuracy, f1_score, printed, t_ret>>
    /\ UNCHANGED <<metricVars, kfoldVars, colsVars, corrVars>>

\* lines 177-179: the progress line; then the loops move on
TunePrint ==
    /\ t_pc = "print"
    /\ printed' = Append(printed, <<lambdas[t_li], gammas[t_gi], accuracy, f1_score>>)
    /\ t_gi' = Advance(t_gi, t_li)[1]
    /\ t_li' = Advance(t_gi, t_li)[2]
    /\ t_pc' = "loop"
    /\ UNCHANGED <<lambdas, gammas, model_params, cv_calls, accuracy, f1_score, best_accuracy, best_f1_score, best_param_lambda, best_param_gamma, t_ret>>
    /\ UNCHANGED <<metricVars, kfoldVars, colsVars, corrVars>>

\* line 181: the loops are over, the best pair is returned
TuneReturn ==
    /\ t_pc = "loop"
    /\ ~HasPoint(t_gi, t_li)
    /\ t_ret' = <<best_param_lambda, best_param_gamma>>
    /\ t_pc' = "done"
    /\ UNCHANGED <<lambdas, gammas, t_gi, t_li, model_params, cv_calls, accuracy, f1_score, best_accuracy, best_f1_score, best_param_lambda, best_param_gamma, printed>>
    /\ UNCHANGED <<metricVars, kfoldVars, colsVars, corrVars>>

NextTune == TuneEvaluate \/ TuneCompare \/ TunePrint \/ TuneReturn

(***************************************************************************)
(* Feature selector (a): sentinel / nan density.                           *)
(***************************************************************************)
\* the codes columns_to_remove compares the cells with (lines 330-342)
Sentinels == {77, 99, 777, 999, 7777, 9999, 777777, 999999}
\* a cell that is neither nan nor a sentinel code
Ordinary == {7}
\* the thresholds t the calls are made with: 1/2 and the default 0.6
Thresholds == {<<1, 2>>, <<3, 5>>}

\* The columns of n cells over the values S. A column is listed in one order
\* of its cells (ascending); what the column holds, and how often, is free.
Columns(n, S) == {c \in [1..n -> S] : \A p, q \in 1..n : p < q => c[p] <= c[q]}

\* np.sum(col == v); nan equals nothing
CountEq(col, v) == Cardinality({n \in 1..Len(col) : Eq(col[n], v)})
\* np.sum(np.isnan(col))
CountNaN(col) == Cardinality({n \in 1..Len(col) : IsNaN(col[n])})

\* lines 326-346: num_remove of one column
NumRemove(col) ==
    LET num_nan == CountNaN(col)
        num_2729 == CountEq(col, 77) + CountEq(col, 99)
        num_3739 == CountEq(col, 777) + CountEq(col, 999)
        num_4749 == CountEq(col, 7777) + CountEq(col, 9999)
        num_6769 == CountEq(col, 777777) + CountEq(col, 999999)
    IN  num_nan + num_2729 + num_3739 + num_4749 + num_6769

ThresholdReachedStrict(num_remove, rows, t) == ~RLeq(<<num_remove, rows>>, t)
\* lines 347-348: per_remove = num_remove / x_data.shape[0]; per_remove >= t
ThresholdReached(num_remove, rows, t) == RLeq(t, <<num_remove, rows>>)

\* lines 322-351: the loop over the columns j = 0 .. n - 1, appending to remove
RECURSIVE RemoveLoop(_, _, _, _)
RemoveLoop(x, rows, t, n) ==
    IF n = 0 THEN <<>>
    ELSE LET remove == RemoveLoop(x, rows, t, n - 1)
         IN  IF ThresholdReached(NumRemove(x[n]), rows, t)
             THEN Append(remove, n - 1)
             ELSE remove

ColumnsToRemove(x, rows, t) == RemoveLoop(x, rows, t, Len(x))

\* np.delete(x, idx, 1): the columns of x whose 0-based index is not in idx
RECURSIVE DeleteLoop(_, _, _)
DeleteLoop(x, idx, n) ==
    IF n = 0 THEN <<>>
    ELSE IF (n - 1) \in Range(idx)
         THEN DeleteLoop(x, idx, n - 1)
         ELSE Append(DeleteLoop(x, idx, n - 1), x[n])

DeleteColumns(x, idx) == DeleteLoop(x, idx, Len(x))

InitCols ==
    /\ c_pc = "call"
    /\ c_op = "none"
    /\ c_rows \in 1..MaxRows
    /\ c_t \in Thresholds
    /\ \E d \in 0..MaxCols, s \in Sentinels :
          x_data \in [1..d -> Columns(c_rows, {NaN, s} \cup Ordinary)]
    /\ c_ret = <<>>

IdleCols ==
    /\ c_pc = "idle"
    /\ c_op = "none"
    /\ c_rows = 0
    /\ c_t = <<0, 1>>
    /\ x_data = <<>>
    /\ c_ret = <<>>

\* columns_to_remove(x_data, t)
columns_to_remove ==
    /\ c_pc = "call"
    /\ c_op' = "columns_to_remove"
    /\ c_ret' = ColumnsToRemove(x_data, c_rows, c_t)
    /\ c_pc' = "returned"
    /\ UNCHANGED <<x_data, c_rows, c_t>>
    /\ UNCHANGED <<metricVars, kfoldVars, tuneVars, corrVars>>

\* reduced_data(x_data, t)
reduced_data ==
    /\ c_pc = "call"
    /\ c_op' = "reduced_data"
    /\ c_ret' = DeleteColumns(x_data, ColumnsToRemove(x_data, c_rows, c_t))
    /\ c_pc' = "returned"
    /\ UNCHANGED <<x_data, c_rows, c_t>>
    /\ UNCHANGED <<metricVars, kfoldVars, tuneVars, corrVars>>

NextCols == columns_to_remove \/ reduced_data

(***************************************************************************)
(* Feature selector (b): pairwise correlation.                             *)
(***************************************************************************)
\* the unordered pairs of the columns 0 .. d - 1
Pairs(d) == {{i, j} : i, j \in 0..(d - 1)} \ {{i} : i \in 0..(d - 1)}

\* line 419: abs(corr_matrix[i, j]) > threshold; a nan correlation (a constant
\* column) compares false and is in no relation
HighlyCorrelated(H, i, j) == {i, j} \in H

\* lines 418-420: the inner loop, j = from .. d - 1
RECURSIVE InnerLoop(_, _, _, _, _)
InnerLoop(mask, H, i, j, d) ==
    IF j >= d THEN mask
    ELSE InnerLoop(IF HighlyCorrelated(H, i, j) THEN [mask EXCEPT ![j] = TRUE] ELSE mask,
                   H, i, j + 1, d)

\* the loops, had they passed over a column i that is marked already
RECURSIVE OuterLoopSkipMarked(_, _, _, _)
OuterLoopSkipMarked(mask, H, i, d) ==
    IF i >= d THEN mask
    ELSE OuterLoopSkipMarked(IF mask[i] THEN mask ELSE InnerLoop(mask, H, i, i + 1, d),
                             H, i + 1, d)

\* lines 417-420: the outer loop, i = from .. d - 1
RECURSIVE OuterLoop(_, _, _, _)
OuterLoop(mask, H, i, d) ==
    IF i >= d THEN mask
    ELSE OuterLoop(InnerLoop(mask, H, i, i + 1, d), H, i + 1, d)

\* lines 414-420: np.zeros(d, dtype=bool), then the loops
DropMask(H, d) == OuterLoop([j \in 0..(d - 1) |-> FALSE], H, 0, d)

\* m[:, ~mask]: the columns (by index) of a matrix with d columns the mask leaves
KeepColumns(mask, d) == Sorted({j \in 0..(d - 1) : ~mask[j]})

TestMaskRecomputed(mask, th, d) == DropMask(th, d)
\* line 437: the mask drop_test_correlated_features selects with is its argument
TestMask(mask, th, d) == mask

\* np.corrcoef(data, rowvar=False) of a matrix with a single column, or with a
\* single row (which numpy takes as one variable), is a 0-d array
ScalarCorr(rows, d) == d = 1 \/ rows = 1

\* The training matrix has one row (every correlation is undefined) or d + 1
\* rows, enough for every relation on its d columns to be the one of some data.
InitCorr ==
    /\ d_pc = "train"
    /\ d_cols \in 1..MaxD
    /\ d_rows \in {1, d_cols + 1}
    /\ high \in (IF d_rows = 1 THEN {{}} ELSE SUBSET Pairs(d_cols))
    /\ test_high \in SUBSET Pairs(d_cols)
    /\ drop_cols = <<>>
    /\ train_kept = <<>>
    /\ test_kept = <<>>

IdleCorr ==
    /\ d_pc = "idle"
    /\ d_rows = 0
    /\ d_cols = 0
    /\ high = {}
    /\ test_high = {}
    /\ drop_cols = <<>>
    /\ train_kept = <<>>
    /\ test_kept = <<>>

\* drop_highly_correlated_features(data, threshold). The shape[0] of a 0-d
\* corr_matrix (line 414) raises IndexError.
drop_highly_correlated_features ==
    /\ d_pc = "train"
    /\ IF ScalarCorr(d_rows, d_cols)
       THEN /\ d_pc' = "raised"
            /\ UNCHANGED <<drop_cols, train_kept>>
       ELSE /\ d_pc' = "fitted"
            /\ drop_cols' = DropMask(high, d_cols)
            /\ train_kept' = KeepColumns(drop_cols', d_cols)
    /\ UNCHANGED <<d_rows, d_cols, high, test_high, test_kept>>
    /\ UNCHANGED <<metricVars, kfoldVars, tuneVars, colsVars>>

\* drop_test_correlated_features(x_test, drop_cols)
drop_test_correlated_features ==
    /\ d_pc = "fitted"
    /\ test_kept' = KeepColumns(TestMask(drop_cols, test_high, d_cols), d_cols)
    /\ d_pc' = "applied"
    /\ UNCHANGED <<d_rows, d_cols, high, test_high, drop_cols, train_kept>>
    /\ UNCHANGED <<metricVars, kfoldVars, tuneVars, colsVars>>

NextCorr == drop_highly_correlated_features \/ drop_test_correlated_features

(***************************************************************************)
(* Specifications.                                                         *)
(***************************************************************************)
InitMetrics ==
    /\ m_pc = "call"
    /\ m_op = "none"
    /\ y_true \in SeqsUpTo(Labels, MaxLen)
    /\ y_pred \in SeqsUpTo(Labels, MaxLen)
    /\ m_ret = <<>>

IdleMetrics ==
    /\ m_pc = "idle"
    /\ m_op = "none"
    /\ y_true = <<>>
    /\ y_pred = <<>>
    /\ m_ret = <<>>

NextMetrics == compute_f1 \/ calculate_metrics

InitMetricsCall == InitMetrics /\ IdleKFold /\ IdleTune /\ IdleCols /\ IdleCorr

\* the metric engine alone
SpecMetrics == InitMetricsCall /\ [][NextMetrics]_vars

InitKFoldCall == IdleMetrics /\ InitKFold /\ IdleTune /\ IdleCols /\ IdleCorr

\* one cross-validation
SpecKFold == InitKFoldCall /\ [][NextKFold]_vars

InitTuneCall == IdleMetrics /\ IdleKFold /\ InitTune /\ IdleCols /\ IdleCorr

\* one grid search
SpecTune == InitTuneCall /\ [][NextTune]_vars

InitColsCall == IdleMetrics /\ IdleKFold /\ IdleTune /\ InitCols /\ IdleCorr

\* one call of columns_to_remove or of reduced_data
SpecCols == InitColsCall /\ [][NextCols]_vars

InitCorrCall == IdleMetrics /\ IdleKFold /\ IdleTune /\ IdleCols /\ InitCorr

\* the correlation filter fitted on a training matrix, then applied to a test matrix
SpecCorr == InitCorrCall /\ [][NextCorr]_vars

\* the operations that take paired sequences: a call of the metric engine, or a
\* cross-validation
InitPaired == InitMetricsCall \/ InitKFoldCall

NextPaired == NextMetrics \/ NextKFold

SpecPaired == InitPaired /\ [][NextPaired]_vars

\* any one of the operations
Init == InitMetricsCall \/ InitKFoldCall \/ InitTuneCall \/ InitColsCall \/ InitCorrCall

Next == NextMetrics \/ NextKFold \/ NextTune \/ NextCols \/ NextCorr

Spec == Init /\ [][Next]_vars

(***************************************************************************)
(* Claims about k_fold_cross_validation (checked under SpecKFold).         *)
(***************************************************************************)
TestSet(n) == Range(folds[n].test)
TrainSet(n) == Range(folds[n].train)
AllSamples == 0..(num_rows - 1)

\* C1: for 1 <= k <= N and every shuffle, the test-index sets of the folds are
\* pairwise disjoint, no index of a fold's test set is in that fold's train
\* set, and once all k folds are done the union of the test sets has exactly
\* k * (N // k) elements.
C1_TestFoldsDisjoint ==
    (kf_k >= 1 /\ kf_k <= num_rows) =>
        /\ \A a, b \in 1..Len(folds) : a # b => TestSet(a) \cap TestSet(b) = {}
        /\ \A a \in 1..Len(folds) : TestSet(a) \cap TrainSet(a) = {}
        /\ kf_pc = "returned" =>
              /\ Len(folds) = kf_k
              /\ Cardinality(UNION {TestSet(a) : a \in 1..Len(folds)}) = kf_k * (num_rows \div kf_k)

\* a finished cross-validation with at least two non-empty folds and a remainder
C1_Witness ==
    /\ kf_pc = "returned"
    /\ kf_k >= 2
    /\ kf_k <= num_rows
    /\ num_rows % kf_k # 0
    /\ Len(folds) = kf_k

\* C8: every fold's train index set is the complement of its test index set in
\* {0..N-1}, so each fold trains on N - N // k samples; the last N mod k indices
\* of the shuffled order are in no fold's test set and in every fold's train set.
C8_TrainIsComplement ==
    \A a \in 1..Len(folds) :
        /\ TrainSet(a) = AllSamples \ TestSet(a)
        /\ Len(folds[a].train) = num_rows - (num_rows \div kf_k)
        /\ \A p \in (kf_k * fold_size + 1)..num_rows :
              /\ indices[p] \notin TestSet(a)
              /\ indices[p] \in TrainSet(a)

\* a finished cross-validation whose sample count is not divisible by k
C8_Witness ==
    /\ kf_pc = "returned"
    /\ kf_k >= 2
    /\ num_rows % kf_k = 1
    /\ fold_size >= 1
    /\ Len(folds) = kf_k

(***************************************************************************)
(* Claims about the metric engine (SpecMetrics) and about the operations   *)
(* that take paired sequences (SpecPaired).                                *)
(***************************************************************************)
\* the positions of two equal-length label sequences with the given labels
Positions(yt, t, yp, q) == {n \in 1..Len(yt) : yt[n] = t /\ yp[n] = q}

\* C4: every operation that takes paired sequences fails with an error when
\* their lengths differ, before it does anything else: compute_f1 and
\* calculate_metrics on y_true, y_pred of different lengths, and
\* k_fold_cross_validation on X and y with X.shape[0] # len(y).
C4_LengthMismatchFails ==
    /\ (m_pc \in {"returned", "raised"} /\ Len(y_true) # Len(y_pred)) => m_pc = "raised"
    /\ (kf_pc \in {"loop", "returned", "raised"} /\ kf_k >= 1 /\ num_rows # y_len) =>
          /\ kf_pc # "returned"
          /\ folds = <<>>

\* the part of C4 the code keeps: compute_f1 raises on different lengths, and
\* k_fold_cross_validation raises in its first fold when y is shorter than X
C4_ChecksThatExist ==
    /\ (m_op = "compute_f1" /\ Len(y_true) # Len(y_pred)) => m_pc = "raised"
    /\ (kf_pc \in {"returned", "raised"} /\ kf_k >= 1 /\ y_len < num_rows) =>
          /\ kf_pc = "raised"
          /\ kf_err = "IndexError"
          /\ folds = <<>>

\* C7: on two equal-length sequences of binary labels compute_f1 returns (never
\* raises) a number in [0, 1]; precision is 0 when TP + FP = 0, recall is 0
\* when TP + FN = 0, F1 is 0 when precision + recall = 0, and otherwise
\* F1 = 2 * P * R / (P + R) with P = TP / (TP + FP) and R = TP / (TP + FN).
C7_F1Total ==
    (m_op = "compute_f1" /\ Len(y_true) = Len(y_pred)) =>
        LET tp == Cardinality(Positions(y_true, 1, y_pred, 1))
            fp == Cardinality(Positions(y_true, 0, y_pred, 1))
            fn == Cardinality(Positions(y_true, 1, y_pred, 0))
        IN  /\ m_pc = "returned"
            /\ m_ret.f1[2] > 0
            /\ 0 <= m_ret.f1[1]
            /\ m_ret.f1[1] <= m_ret.f1[2]
            /\ IF tp + fp = 0 THEN m_ret.precision[1] = 0
                              ELSE m_ret.precision[1] * (tp + fp) = tp * m_ret.precision[2]
            /\ IF tp + fn = 0 THEN m_ret.recall[1] = 0
                              ELSE m_ret.recall[1] * (tp + fn) = tp * m_ret.recall[2]
            /\ IF RIsZero(RAdd(m_ret.precision, m_ret.recall))
               THEN m_ret.f1[1] = 0
               ELSE LET P == <<tp, tp + fp>>
                        R == <<tp, tp + fn>>
                    IN  /\ tp > 0
                        /\ REq(m_ret.f1, RDiv(RMul(<<2, 1>>, RMul(P, R)), RAdd(P, R)))
            /\ (tp + fp + fn = 0) => m_ret.f1[1] = 0

\* compute_f1 has returned a score strictly between 0 and 1
C7_Witness ==
    /\ m_op = "compute_f1"
    /\ m_pc = "returned"
    /\ 0 < m_ret.f1[1]
    /\ m_ret.f1[1] < m_ret.f1[2]
    /\ m_ret.FP > 0
    /\ m_ret.FN = 0

\* the zero-division policy of C7 has applied: no positive label on either side
C7_WitnessAllZero ==
    /\ m_op = "compute_f1"
    /\ m_pc = "returned"
    /\ Len(y_true) = MaxLen
    /\ m_ret.TP + m_ret.FP + m_ret.FN = 0
    /\ m_ret.f1[1] = 0

(***************************************************************************)
(* Claims about hyperparameter_tuning (checked under SpecTune).            *)
(***************************************************************************)
best == <<best_accuracy, best_f1_score, best_param_lambda, best_param_gamma>>

\* the (lambda, gamma) of the n-th progress line, as the search returns a pair
PointOf(n) == <<Some(printed[n][1]), Some(printed[n][2])>>
\* the n-th evaluated point has scores at least those of the m-th
AtLeast(n, m) == Geq(printed[n][3], printed[m][3]) /\ Geq(printed[n][4], printed[m][4])
\* the n-th evaluated point dominates the m-th
Dominates(n, m) == AtLeast(n, m) /\ (printed[n][3] # printed[m][3] \/ printed[n][4] # printed[m][4])
\* the n-th grid point in the order gamma outer loop, lambda inner loop
NthPoint(n) ==
    [lambda_ |-> Some(lambdas[((n - 1) % Len(lambdas)) + 1]),
     gamma |-> Some(gammas[((n - 1) \div Len(lambdas)) + 1])]

\* C2, the rule: the recorded best (lambda, gamma, accuracy, f1) changes only in
\* the comparison of a grid point, and there it becomes that grid point exactly
\* when its f1 >= best f1 and its accuracy >= best accuracy.
C2_ReplaceRule ==
    [][IF t_pc = "compare" /\ Geq(f1_score, best_f1_score) /\ Geq(accuracy, best_accuracy)
       THEN best' = <<accuracy, f1_score, Some(lambdas[t_li]), Some(gammas[t_gi])>>
       ELSE best' = best]_vars

\* C2, the consequence: of two grid points with identical (accuracy, f1) the
\* search never returns the earlier-iterated one.
C2_NeverEarlierOfTied ==
    [](t_pc = "done" =>
          \A p, q \in 1..Len(printed) :
              (p < q /\ printed[p][3] = printed[q][3] /\ printed[p][4] = printed[q][4])
                  => t_ret # PointOf(p))

C9_GridOrder ==
    /\ \A n \in 1..Len(cv_calls) : cv_calls[n] = NthPoint(n)
    /\ \A n \in 1..Len(printed) : PointOf(n) = <<NthPoint(n).lambda_, NthPoint(n).gamma>>
    /\ Len(cv_calls) = Len(printed) + (IF t_pc \in {"compare", "print"} THEN 1 ELSE 0)
    /\ t_pc \in {"compare", "print"} => model_params = cv_calls[Len(cv_calls)]
    /\ t_pc = "print" =>
          \/ best = <<accuracy, f1_score, model_params.lambda_, model_params.gamma>>
          \/ ~(Geq(f1_score, best_f1_score) /\ Geq(accuracy, best_accuracy))
    /\ t_pc = "done" =>
          /\ Len(cv_calls) = Len(gammas) * Len(lambdas)
          /\ Len(printed) = Len(gammas) * Len(lambdas)

\* a finished search over a grid of two gammas and two lambdas
C9_Witness ==
    /\ t_pc = "done"
    /\ Len(gammas) = 2
    /\ Len(lambdas) = 2
    /\ Len(printed) = 4

\* C10: over a non-empty grid whose scores are all >= 0 the search returns the
\* (lambda, gamma) of one evaluated grid point, and no evaluated point
\* dominates it; over an empty lambdas or gammas it returns (None, None) and
\* runs no cross-validation.
C10_ReturnsUndominated ==
    t_pc = "done" =>
        IF Len(lambdas) = 0 \/ Len(gammas) = 0
        THEN /\ t_ret = <<None, None>>
             /\ cv_calls = <<>>
        ELSE (\A n \in 1..Len(printed) : Geq(printed[n][3], 0) /\ Geq(printed[n][4], 0)) =>
                \E m \in 1..Len(printed) :
                    /\ t_ret = PointOf(m)
                    /\ \A n \in 1..Len(printed) : ~Dominates(n, m)

\* a finished search with non-negative scores in which the returned point
\* dominates one point and is incomparable with another
C10_Witness ==
    /\ t_pc = "done"
    /\ \A n \in 1..Len(printed) : Geq(printed[n][3], 0) /\ Geq(printed[n][4], 0)
    /\ \E m, n, o \in 1..Len(printed) :
          /\ t_ret = PointOf(m)
          /\ Dominates(m, n)
          /\ ~AtLeast(m, o)
          /\ ~AtLeast(o, m)

\* the search returned (None, None) although it evaluated grid points: every
\* cross-validation returned a nan accuracy
C10_WitnessNaN ==
    /\ t_pc = "done"
    /\ Len(printed) >= 2
    /\ t_ret = <<None, None>>

(***************************************************************************)
(* Claims about columns_to_remove and reduced_data (checked under          *)
(* SpecCols).                                                              *)
(***************************************************************************)
\* the number of rows of column j (0-based) that are nan or a sentinel code
BadRows(j) == Cardinality({n \in 1..c_rows : x_data[j + 1][n] \in Sentinels \cup {NaN}})
\* the columns whose fraction of such rows is >= t
DenseColumns == {j \in 0..(Len(x_data) - 1) : BadRows(j) * c_t[2] >= c_t[1] * c_rows}

C6_WitnessReduced ==
    /\ c_pc = "returned"
    /\ c_op = "reduced_data"
    /\ Len(x_data) = 2
    /\ DenseColumns = {0}
    /\ c_ret = <<x_data[2]>>

(***************************************************************************)
(* Claims about the correlation filter (checked under SpecCorr).           *)
(***************************************************************************)
Fitted == d_pc \in {"fitted", "applied"}
ColumnPairs == {p \in (0..(d_cols - 1)) \X (0..(d_cols - 1)) : p[1] < p[2]}

\* C3 as stated: for every pair of columns i < j whose absolute correlation
\* exceeds the threshold, column j is marked in the drop mask and column i is
\* not marked, chains included.
C3_LowerAlwaysKept ==
    Fitted => \A p \in ColumnPairs :
                  {p[1], p[2]} \in high => (drop_cols[p[2]] /\ ~drop_cols[p[1]])

\* C3 as amended: for every such pair column j is marked; a column is marked
\* exactly when some lower-indexed column is highly correlated with it, marked
\* or not; so the column i of a pair is kept only when no column below i is
\* highly correlated with i, and column 0 is always kept.
C3_HigherAlwaysMarked ==
    Fitted =>
        /\ \A p \in ColumnPairs : {p[1], p[2]} \in high => drop_cols[p[2]]
        /\ \A j \in 0..(d_cols - 1) :
              drop_cols[j] <=> (\E i \in 0..(j - 1) : {i, j} \in high)
        /\ ~drop_cols[0]

\* a chain: column 1 is highly correlated with 0 and 2 with 1, not 2 with 0; the
\* mask marks 1 and 2
C3_Witness ==
    /\ Fitted
    /\ d_cols >= 3
    /\ {0, 1} \in high
    /\ {1, 2} \in high
    /\ {0, 2} \notin high
    /\ drop_cols[1]
    /\ drop_cols[2]

\* C5 as stated: for any training matrix and any test matrix with D columns,
\* drop_highly_correlated_features returns a mask of length D, and
\* drop_test_correlated_features with that mask keeps exactly the unmarked
\* columns in their order: the columns of the reduced test matrix are those of
\* the reduced training matrix, whatever the test data's correlations are.
C5_MaskReused ==
    /\ d_pc # "train" =>
          /\ d_pc # "raised"
          /\ DOMAIN drop_cols = 0..(d_cols - 1)
    /\ d_pc = "applied" =>
          /\ test_kept = Sorted({j \in 0..(d_cols - 1) : ~drop_cols[j]})
          /\ test_kept = train_kept
          /\ Len(test_kept) = Len(train_kept)

\* what holds of the mask whenever drop_highly_correlated_features returns
C5_MaskReusedWhenFitted ==
    /\ d_pc = "raised" <=> (d_pc # "train" /\ ScalarCorr(d_rows, d_cols))
    /\ Fitted => DOMAIN drop_cols = 0..(d_cols - 1)
    /\ d_pc = "applied" =>
          /\ test_kept = Sorted({j \in 0..(d_cols - 1) : ~drop_cols[j]})
          /\ test_kept = train_kept

\* drop_test_correlated_features leaves the mask as it got it
C5_MaskNotModified == [][d_pc = "fitted" => drop_cols' = drop_cols]_vars

\* the mask was applied to a test matrix whose own correlations would give
\* another mask
C5_Witness ==
    /\ d_pc = "applied"
    /\ DropMask(test_high, d_cols) # drop_cols
    /\ Len(test_kept) < d_cols

====
